---- MODULE Spec2Model ----
(***************************************************************************)
(* Model of github.com/nathanhack/threadpool: the fixed-capacity pool      *)
(* (fixedPool, NewFixedSize) and the dynamic pool (dynamicPool, New).      *)
(*                                                                         *)
(* Every submission call (Add / AddNoWait) is a small process whose        *)
(* program counter pc[i] walks through the statements of the method and of *)
(* the goroutine it spawns.  sync.Mutex, sync.WaitGroup, the token channel  *)
(* and the cancellable context are modelled by their Go semantics:         *)
(*   - mux   : 0 when unlocked, otherwise the id of the holder;            *)
(*   - wg    : the WaitGroup counter; an Add that makes it negative        *)
(*             panics (the process dies); the Add that makes it zero       *)
(*             releases a blocked Wait;                                    *)
(*   - c     : number of tokens buffered in the channel of capacity cap;   *)
(*   - select: when several cases are ready Go picks any of them.          *)
(***************************************************************************)
EXTENDS Integers, FiniteSets, Sequences, TLC

\* ---- bounds of the model ----
MaxCalls == 3
MaxTotal == 3
MaxC == 2
\* runtime.NumCPU() of the host
NumCPU == 2

Calls == 1..MaxCalls

VARIABLES
    kind,       \* "fixed" (fixedPool) or "dynamic" (dynamicPool)
    cap,        \* capacity of the token channel c
    total,      \* totalJobs given to NewFixedSize (0 for the dynamic pool)
    size,       \* fixedPool.size
    mux,        \* fixedPool.mux: 0 = unlocked, i = held by call i
    ctxDone,    \* p.ctx is cancelled
    c,          \* tokens currently in the channel p.c
    wg,         \* counter of p.wg
    panicked,   \* a goroutine panicked (negative WaitGroup counter)
    wpc,        \* the caller of Wait: "idle", "wait", "ret"
    pc,         \* pc[i]: position of submission call i
    meth,       \* meth[i]: "Add", "AddNoWait" or "none" before the call
    ran,        \* ran[i]: number of times the work f of call i was started
    seq,        \* TRUE: one caller submits sequentially; FALSE: concurrent callers
    ncalls,     \* number of submission calls the callers make in this run
    recording,  \* TRUE in the runs that keep the history variables below
    startedAtCancel, \* history: jobs started when the context was cancelled (-1 before)
    blockedAtCancel, \* history: a submission was blocked on the select at that moment
    callAfterCancel, \* history: a submission call began after the cancellation
    net,        \* history: net[i] = what call i itself did to wg, size and c
    timer       \* the clock of the timed runs: on, now, and left[i], the
                \* time units the running work of call i still sleeps

vars == <<kind, cap, total, size, mux, ctxDone, c, wg, panicked,
          wpc, pc, meth, ran, seq, ncalls, recording,
          startedAtCancel, blockedAtCancel, callAfterCancel, net, timer>>

cfgVars == <<kind, cap, total, seq, ncalls, recording>>
poolVars == <<cfgVars, timer>>
cancelHist == <<startedAtCancel, blockedAtCancel, callAfterCancel>>
histVars == <<cancelHist, net>>

\* ---- helpers ----
RECURSIVE SumRan(_)
SumRan(n) == IF n = 0 THEN 0 ELSE ran[n] + SumRan(n - 1)

\* number of jobs whose work f has been started so far
Started == SumRan(MaxCalls)

\* if concurrentThreads <= 0 { concurrentThreads = runtime.NumCPU() }
Capacity(concurrentThreads) ==
    IF concurrentThreads <= 0 THEN NumCPU ELSE concurrentThreads

Alive == ~panicked

\* history of call i: its own changes to the Completion Counter (dwg), the
\* Remaining Budget (dsize) and the token channel (dc); o is the case its
\* select took ("slot" or "cancel", "none" for a step that is no select
\* outcome), with the Remaining Budget seen when cancellation was handled
NoNet == [wg |-> 0, size |-> 0, c |-> 0, obs |-> "none", seen |-> -1]
Note(i, dwg, dsize, dc, o) ==
    net' = IF recording
           THEN [net EXCEPT ![i] =
                    [wg |-> @.wg + dwg, size |-> @.size + dsize, c |-> @.c + dc,
                     obs |-> IF o = "none" THEN @.obs ELSE o,
                     seen |-> IF o = "cancel" THEN size ELSE @.seen]]
           ELSE net

\* ---- constructors ----
NewFixedSize(concurrentThreads, totalJobs) ==
    /\ kind = "fixed"
    /\ cap = Capacity(concurrentThreads)
    /\ c = Capacity(concurrentThreads)
    /\ total = totalJobs
    /\ size = totalJobs
    /\ wg = totalJobs
    /\ mux = 0
    /\ ctxDone = FALSE

New(concurrentThreads) ==
    /\ kind = "dynamic"
    /\ cap = Capacity(concurrentThreads)
    /\ c = Capacity(concurrentThreads)
    /\ total = 0
    /\ size = 0
    /\ wg = 0
    /\ mux = 0
    /\ ctxDone = FALSE

InitPool ==
    /\ \/ \E ct \in -1..MaxC, tj \in 0..MaxTotal : NewFixedSize(ct, tj)
       \/ \E ct \in -1..MaxC : New(ct)
    /\ panicked = FALSE
    /\ wpc = "idle"
    /\ pc = [i \in Calls |-> "idle"]
    /\ meth = [i \in Calls |-> "none"]
    /\ ran = [i \in Calls |-> 0]
    /\ seq \in BOOLEAN
    /\ ncalls \in 0..MaxCalls
    /\ startedAtCancel = -1
    /\ blockedAtCancel = FALSE
    /\ callAfterCancel = FALSE
    /\ net = [i \in Calls |-> NoNet]

\* the clock: off in the untimed runs; in the timed runs the work f of every
\* job is time.Sleep of one time unit
Clock(on) == [on |-> on, now |-> 0, left |-> [i \in Calls |-> 0]]

\* the runs of Spec and FairSpec keep no history
Init == InitPool /\ recording = FALSE /\ timer = Clock(FALSE)

\* the runs of TimedSpec
InitTimed == InitPool /\ recording = FALSE /\ timer = Clock(TRUE)

\* the runs of HistSpec record, at the first cancellation, what the
\* properties about "the moment the cancellation fired" refer to
InitHist == InitPool /\ recording = TRUE /\ timer = Clock(FALSE)

\* ---- sync.WaitGroup ----
\* wg.Add(delta): the counter is updated; a negative result panics; a zero
\* result releases the goroutine blocked in Wait.
WgAdd(delta) ==
    /\ wg' = wg + delta
    /\ panicked' = (wg + delta < 0)
    /\ wpc' = IF wg + delta = 0 /\ wpc = "wait" THEN "ret" ELSE wpc

\* ---- sync.Mutex ----
\* p.mux.Lock() proceeds when the mutex is unlocked.  (MuxFree_NoGuard is the
\* faulty variant without mutual exclusion.)
MuxFree_NoGuard == TRUE
MuxFree == mux = 0

\* ---- the token channel ----
\* case <-p.c: can proceed when a token is buffered.  (SlotReady_Always is
\* the faulty variant that starts work without a token.)
SlotReady_Always == TRUE
SlotReady == c > 0

\* ---- the callers ----
\* the call has returned to its caller: AddNoWait returns once the goroutine
\* is spawned, Add once its select is over.  (CallerReturned_Blocking is the
\* faulty variant in which AddNoWait waits for the slot in the caller.)
CallerReturned_Blocking(i) ==
    pc[i] \in {"run", "wgdone", "fin", "rej", "disc"}

CallerReturned(i) ==
    IF meth[i] = "AddNoWait"
    THEN pc[i] \notin {"idle", "dec"}
    ELSE pc[i] \in {"run", "wgdone", "fin", "rej", "disc"}

\* call i may begin: a sequential caller makes it after the previous call
\* returned; concurrent callers make their calls in index order.
CanCall(i) ==
    /\ Alive
    /\ i <= ncalls
    /\ pc[i] = "idle"
    /\ i > 1 => IF seq THEN CallerReturned(i - 1) ELSE pc[i - 1] # "idle"

BeginCall(i, m, dwg) ==
    /\ meth' = [meth EXCEPT ![i] = m]
    /\ callAfterCancel' = (callAfterCancel \/ (recording /\ ctxDone))
    /\ Note(i, dwg, 0, 0, "none")
    /\ UNCHANGED <<startedAtCancel, blockedAtCancel>>

\* ---- fixedPool.Add / fixedPool.AddNoWait ----
\* p.mux.Lock(); if p.size == 0 { p.mux.Unlock(); return }
\* A rejected call touches nothing but the mutex; an accepted one goes on to
\* p.size-- with the mutex held.  (FixedEnter_RejectDone is the faulty variant
\* in which the rejected call also signals wg.Done.)
FixedEnter_RejectDone(i) ==
    /\ CanCall(i)
    /\ kind = "fixed"
    /\ MuxFree
    /\ \E m \in {"Add", "AddNoWait"} : BeginCall(i, m, 0)
    /\ IF size = 0
       THEN /\ pc' = [pc EXCEPT ![i] = "rej"]
            /\ WgAdd(-1)
            /\ UNCHANGED mux
       ELSE /\ pc' = [pc EXCEPT ![i] = "dec"]
            /\ mux' = i
            /\ UNCHANGED <<wg, panicked, wpc>>
    /\ UNCHANGED <<poolVars, size, ctxDone, c, ran>>

FixedEnter(i) ==
    /\ CanCall(i)
    /\ kind = "fixed"
    /\ MuxFree
    /\ \E m \in {"Add", "AddNoWait"} : BeginCall(i, m, 0)
    /\ IF size = 0
       THEN /\ pc' = [pc EXCEPT ![i] = "rej"]
            /\ UNCHANGED mux
       ELSE /\ pc' = [pc EXCEPT ![i] = "dec"]
            /\ mux' = i
    /\ UNCHANGED <<poolVars, size, ctxDone, c, wg, panicked, wpc, ran>>

\* p.size--; then Add unlocks and reaches its select, AddNoWait spawns the
\* goroutine (which reaches the same select) and unlocks by its defer.
\* (FixedDec_NoDec is the faulty variant that forgets p.size--.)
FixedDec_NoDec(i) ==
    /\ Alive
    /\ pc[i] = "dec"
    /\ mux' = 0
    /\ pc' = [pc EXCEPT ![i] = "select"]
    /\ UNCHANGED <<poolVars, histVars, size, ctxDone, c, wg, panicked, wpc, meth, ran>>

FixedDec(i) ==
    /\ Alive
    /\ pc[i] = "dec"
    /\ size' = size - 1
    /\ mux' = 0
    /\ pc' = [pc EXCEPT ![i] = "select"]
    /\ Note(i, 0, -1, 0, "none")
    /\ UNCHANGED <<poolVars, cancelHist, ctxDone, c, wg, panicked, wpc, meth, ran>>

\* f() begins: in a timed run it sleeps one time unit
StartWork(i) ==
    timer' = IF timer.on THEN [timer EXCEPT !.left[i] = 1] ELSE timer

\* select: case <-p.c  -- the token is taken and the work f starts
\* (FixedTakeSlot_Greedy is the faulty variant that drains the channel.)
\* (Add: in the goroutine it spawns; AddNoWait: in the waiting goroutine)
FixedTakeSlot_Greedy(i) ==
    /\ Alive
    /\ kind = "fixed"
    /\ pc[i] = "select"
    /\ SlotReady
    /\ c' = 0
    /\ pc' = [pc EXCEPT ![i] = "run"]
    /\ ran' = [ran EXCEPT ![i] = @ + 1]
    /\ Note(i, 0, 0, -c, "slot")
    /\ StartWork(i)
    /\ UNCHANGED <<cfgVars, cancelHist, size, mux, ctxDone, wg, panicked, wpc, meth>>

FixedTakeSlot(i) ==
    /\ Alive
    /\ kind = "fixed"
    /\ pc[i] = "select"
    /\ SlotReady
    /\ c' = c - 1
    /\ pc' = [pc EXCEPT ![i] = "run"]
    /\ ran' = [ran EXCEPT ![i] = @ + 1]
    /\ Note(i, 0, 0, -1, "slot")
    /\ StartWork(i)
    /\ UNCHANGED <<cfgVars, cancelHist, size, mux, ctxDone, wg, panicked, wpc, meth>>

\* select: case <-p.ctx.Done()  -- p.zeroizeWaitgroup() is called
FixedSeeDone(i) ==
    /\ Alive
    /\ kind = "fixed"
    /\ pc[i] = "select"
    /\ ctxDone
    /\ pc' = [pc EXCEPT ![i] = "zlock"]
    /\ UNCHANGED <<poolVars, histVars, size, mux, ctxDone, c, wg, panicked, wpc, meth, ran>>

\* zeroizeWaitgroup: p.mux.Lock();
\* if p.size > 0 { p.wg.Add(-(p.size + 1)); p.size = 0 }; p.mux.Unlock().
\* Add then returns; the goroutine of AddNoWait returns too and still has
\* its deferred p.wg.Done() to run.
zeroizeWaitgroup(i) ==
    /\ Alive
    /\ pc[i] = "zlock"
    /\ MuxFree
    /\ IF size > 0
       THEN /\ WgAdd(-(size + 1))
            /\ size' = 0
       ELSE UNCHANGED <<wg, panicked, wpc, size>>
    /\ pc' = [pc EXCEPT ![i] = IF meth[i] = "Add" THEN "disc" ELSE "defer"]
    /\ Note(i, IF size > 0 THEN -(size + 1) ELSE 0, -size, 0, "cancel")
    /\ UNCHANGED <<poolVars, cancelHist, mux, ctxDone, c, meth, ran>>

\* AddNoWait: defer p.wg.Done() on the cancelled path
DeferredDone(i) ==
    /\ Alive
    /\ pc[i] = "defer"
    /\ WgAdd(-1)
    /\ pc' = [pc EXCEPT ![i] = "disc"]
    /\ Note(i, -1, 0, 0, "none")
    /\ UNCHANGED <<poolVars, cancelHist, size, mux, ctxDone, c, meth, ran>>

\* ---- the worker: f(); p.c <- true; p.wg.Done() ----
\* f() returns; p.c <- true (would block while the channel is full).
\* (Release_Leak is the faulty variant that does not return the token.)
Release_Leak(i) ==
    /\ Alive
    /\ pc[i] = "run"
    /\ pc' = [pc EXCEPT ![i] = "wgdone"]
    /\ UNCHANGED <<poolVars, histVars, size, mux, ctxDone, c, wg, panicked, wpc, meth, ran>>

Release(i) ==
    /\ Alive
    /\ pc[i] = "run"
    /\ timer.left[i] = 0
    /\ c < cap
    /\ c' = c + 1
    /\ pc' = [pc EXCEPT ![i] = "wgdone"]
    /\ Note(i, 0, 0, 1, "none")
    /\ UNCHANGED <<poolVars, cancelHist, size, mux, ctxDone, wg, panicked, wpc, meth, ran>>

\* p.wg.Done()
WorkDone(i) ==
    /\ Alive
    /\ pc[i] = "wgdone"
    /\ WgAdd(-1)
    /\ pc' = [pc EXCEPT ![i] = "fin"]
    /\ Note(i, -1, 0, 0, "none")
    /\ UNCHANGED <<poolVars, cancelHist, size, mux, ctxDone, c, meth, ran>>

\* ---- dynamicPool.Add / dynamicPool.AddNoWait ----
\* p.wg.Add(1); Add reaches its select, AddNoWait spawns the goroutine that
\* reaches the same select and returns.
DynCall(i) ==
    /\ CanCall(i)
    /\ kind = "dynamic"
    /\ \E m \in {"Add", "AddNoWait"} : BeginCall(i, m, 1)
    /\ WgAdd(1)
    /\ pc' = [pc EXCEPT ![i] = "select"]
    /\ UNCHANGED <<poolVars, size, mux, ctxDone, c, ran>>

\* select: case <-p.c
DynTakeSlot(i) ==
    /\ Alive
    /\ kind = "dynamic"
    /\ pc[i] = "select"
    /\ SlotReady
    /\ c' = c - 1
    /\ pc' = [pc EXCEPT ![i] = "run"]
    /\ ran' = [ran EXCEPT ![i] = @ + 1]
    /\ Note(i, 0, 0, -1, "slot")
    /\ StartWork(i)
    /\ UNCHANGED <<cfgVars, cancelHist, size, mux, ctxDone, wg, panicked, wpc, meth>>

\* select: case <-p.ctx.Done(): p.wg.Done(); return  (Add: explicit call,
\* AddNoWait: the deferred call).  (DynSeeDone_NoDone is the faulty variant
\* that returns without p.wg.Done().)
DynSeeDone_NoDone(i) ==
    /\ Alive
    /\ kind = "dynamic"
    /\ pc[i] = "select"
    /\ ctxDone
    /\ pc' = [pc EXCEPT ![i] = "disc"]
    /\ UNCHANGED <<poolVars, histVars, size, mux, ctxDone, c, wg, panicked, wpc, meth, ran>>

DynSeeDone(i) ==
    /\ Alive
    /\ kind = "dynamic"
    /\ pc[i] = "select"
    /\ ctxDone
    /\ WgAdd(-1)
    /\ pc' = [pc EXCEPT ![i] = "disc"]
    /\ Note(i, -1, 0, 0, "cancel")
    /\ UNCHANGED <<poolVars, cancelHist, size, mux, ctxDone, c, meth, ran>>

\* ---- Wait ----
\* p.wg.Wait(): returns at once when the counter is zero, blocks otherwise
Wait ==
    /\ Alive
    /\ wpc = "idle"
    /\ wpc' = IF wg = 0 THEN "ret" ELSE "wait"
    /\ UNCHANGED <<poolVars, histVars, size, mux, ctxDone, c, wg, panicked, pc, meth, ran>>

\* ---- cancellation ----
\* a submission is blocked in its select: no token, context not cancelled
Blocked(i) == pc[i] = "select" /\ c = 0

\* the derived context becomes done (recorded once, at the first firing)
FireCancel ==
    /\ ctxDone' = TRUE
    /\ startedAtCancel' = IF recording /\ ~ctxDone THEN Started ELSE startedAtCancel
    /\ blockedAtCancel' = IF recording /\ ~ctxDone
                          THEN \E i \in Calls : Blocked(i)
                          ELSE blockedAtCancel
    /\ UNCHANGED <<callAfterCancel, net>>

\* p.ctxCancel().  (ForceFinish_Signal is the faulty variant in which every
\* call also signals the WaitGroup.)
ForceFinish_Signal ==
    /\ Alive
    /\ FireCancel
    /\ WgAdd(-1)
    /\ UNCHANGED <<poolVars, size, mux, c, pc, meth, ran>>

ForceFinish ==
    /\ Alive
    /\ FireCancel
    /\ UNCHANGED <<poolVars, size, mux, c, wg, panicked, wpc, pc, meth, ran>>

\* the parent context given to the constructor is cancelled: the context
\* derived by context.WithCancel(ctx) becomes done with it.
\* (ParentCancel_Abort is the faulty variant that tears down running work.)
ParentCancel_Abort ==
    /\ Alive
    /\ FireCancel
    /\ pc' = [i \in Calls |-> IF pc[i] = "run" THEN "disc" ELSE pc[i]]
    /\ UNCHANGED <<poolVars, size, mux, c, wg, panicked, wpc, meth, ran>>

ParentCancel ==
    /\ Alive
    /\ FireCancel
    /\ UNCHANGED <<poolVars, size, mux, c, wg, panicked, wpc, pc, meth, ran>>

\* ---- IsDone ----
\* select { case <-p.ctx.Done(): return true; default: return false }
\* (IsDone_Exhausted is the faulty variant that also reports an exhausted
\* budget as done.)
IsDone_Exhausted == ctxDone \/ (kind = "fixed" /\ size = 0)
IsDone == ctxDone

\* ---- specification ----
Step(i) ==
    \/ FixedEnter(i)
    \/ FixedDec(i)
    \/ FixedTakeSlot(i)
    \/ FixedSeeDone(i)
    \/ zeroizeWaitgroup(i)
    \/ DeferredDone(i)
    \/ Release(i)
    \/ WorkDone(i)
    \/ DynCall(i)
    \/ DynTakeSlot(i)
    \/ DynSeeDone(i)

Next ==
    \/ \E i \in Calls : Step(i)
    \/ Wait
    \/ ForceFinish
    \/ ParentCancel

Spec == Init /\ [][Next]_vars

\* the same program, with the history variables recorded
HistSpec == InitHist /\ [][Next]_vars

\* The Go scheduler runs every runnable goroutine, the work f terminates and
\* the callers make their ncalls calls and call Wait; cancellation is the
\* environment's choice and is not forced.
FairSpec ==
    /\ Spec
    /\ \A i \in Calls : WF_vars(Step(i))
    /\ WF_vars(Wait)

\* ---- timed runs (TestPool_Add, TestPool_AddNoWait) ----
\* the steps of a run without cancellation; they take no time
TimedStep(i) ==
    \/ FixedEnter(i)
    \/ FixedDec(i)
    \/ FixedTakeSlot(i)
    \/ Release(i)
    \/ WorkDone(i)
    \/ DynCall(i)
    \/ DynTakeSlot(i)

\* h.Wait() after the loop of submissions: every call has returned
WaitAfterSubmissions ==
    /\ \A i \in Calls : i <= ncalls => CallerReturned(i)
    /\ Wait

\* one time unit passes: only when no step that takes no time is possible,
\* and every sleeping job wakes up (each started at the current instant)
Tick ==
    /\ timer.on
    /\ Alive
    /\ ~ENABLED (\E i \in Calls : TimedStep(i))
    /\ ~ENABLED WaitAfterSubmissions
    /\ \E i \in Calls : timer.left[i] > 0
    /\ timer' = [timer EXCEPT !.now = @ + 1, !.left = [i \in Calls |-> 0]]
    /\ UNCHANGED <<cfgVars, histVars, size, mux, ctxDone, c, wg, panicked,
                   wpc, pc, meth, ran>>

TimedNext ==
    \/ \E i \in Calls : TimedStep(i)
    \/ WaitAfterSubmissions
    \/ Tick

TimedSpec == InitTimed /\ [][TimedNext]_vars

TypeOK ==
    /\ \A i \in Calls : net[i].obs \in {"none", "slot", "cancel"}
    /\ kind \in {"fixed", "dynamic"}
    /\ cap \in 1..(MaxC + NumCPU)
    /\ pc \in [Calls -> {"idle", "dec", "select", "zlock", "defer",
                         "run", "wgdone", "fin", "rej", "disc"}]
    /\ meth \in [Calls -> {"none", "Add", "AddNoWait"}]
    /\ wpc \in {"idle", "wait", "ret"}
    /\ mux \in 0..MaxCalls
    /\ recording \in BOOLEAN

\* ---- definitions used by the properties ----
\* jobs whose work is executing: token taken and not yet given back
Running == Cardinality({i \in Calls : pc[i] = "run"})

\* a call has resolved: its work finished and was signalled, it was rejected,
\* or it was discarded by the cancellation
Resolved(i) == pc[i] \in {"fin", "rej", "disc"}

\* the callers have made all their calls and every call has resolved
Quiescent == \A i \in Calls : i <= ncalls => Resolved(i)

\* every call of the run has run its work exactly once and has signalled it
AllRanOnce ==
    \A i \in Calls : IF i <= ncalls THEN pc[i] = "fin" /\ ran[i] = 1
                                    ELSE ran[i] = 0

NumFinished == Cardinality({i \in Calls : pc[i] = "fin" /\ ran[i] = 1})
NumRejected == Cardinality({i \in Calls : pc[i] = "rej" /\ ran[i] = 0})

\* ---- C1 ----
\* C1: in both pools, in every reachable state, the number of jobs whose work
\* is executing (token taken and not yet returned) is at most the concurrency
\* limit.
C1_ConcurrencyCeiling == Running <= cap

\* the limit is reached while another submission waits for a token
C1_Witness ==
    /\ Running = cap
    /\ cap >= 2
    /\ \E i \in Calls : Blocked(i)

\* ---- C2 ----
\* C2: when N jobs are submitted (fixed pool: totalJobs = N) and the
\* cancellation never fires, Wait eventually returns and each of the N jobs
\* has run exactly once.
C2_CompletionWithoutCancel ==
    (kind = "fixed" => ncalls = total)
        => <>(ctxDone \/ (wpc = "ret" /\ AllRanOnce))

\* a fixed pool of more jobs than tokens, submitted through both methods,
\* finished without cancellation
C2_Witness ==
    /\ kind = "fixed"
    /\ ncalls = total
    /\ ncalls > cap
    /\ ~ctxDone
    /\ wpc = "ret"
    /\ AllRanOnce
    /\ \E i, j \in Calls : meth[i] = "Add" /\ meth[j] = "AddNoWait"

\* ---- C3 ----
\* C3: whenever Wait returns, no accepted job is still executing its work and
\* no accepted submission is still waiting for a slot.
C3_WaitIsBarrier ==
    [][(wpc # "ret" /\ wpc' = "ret")
          => \A i \in Calls : pc'[i] \notin {"run", "select"}]_vars

\* ---- C4 ----
\* C4: the WaitGroup counter is never negative.
C4_CounterNonNegative == wg >= 0

\* ---- C5 ----
\* C5: when the cancellation fired while a submission was blocked waiting for
\* a slot, then once every call has returned and the jobs in flight have
\* finished, a caller of Wait has returned.
C5_CancelUnblocksWait ==
    (recording /\ blockedAtCancel /\ Quiescent /\ wpc # "idle") => wpc = "ret"

\* ---- C6 ----
\* C6: fixed pool: when the cancellation fired, no submission call was made
\* afterwards and every call and job has finished, a caller of Wait has
\* returned.
C6_WaitTerminatesAfterCancel ==
    (recording /\ kind = "fixed" /\ ctxDone /\ ~callAfterCancel /\ Quiescent
        /\ wpc # "idle")
        => wpc = "ret"

\* ---- C7 ----
\* C7: fixed pool: the remaining budget never drops below zero, and when more
\* than totalJobs calls were made and the cancellation never fired, exactly
\* totalJobs of them ran and the others were rejected without running.
C7_OverSubmission ==
    /\ size >= 0
    /\ (kind = "fixed" /\ ~ctxDone /\ Quiescent /\ ncalls > total)
          => /\ NumFinished = total
             /\ NumRejected = ncalls - total
             /\ Started = total

\* concurrent callers over-submitted and everything resolved
C7_Witness ==
    /\ kind = "fixed"
    /\ ~seq
    /\ ~ctxDone
    /\ Quiescent
    /\ total >= 1
    /\ ncalls > total
    /\ NumRejected >= 1
    /\ \E i, j \in Calls : meth[i] = "Add" /\ meth[j] = "AddNoWait"

\* ---- C8 ----
\* C8: once the cancellation has fired, no submission begins executing its
\* work.
C8_NoStartAfterCancel ==
    [][ctxDone => \A i \in Calls : pc'[i] = "run" => pc[i] = "run"]_vars

\* ---- C9 ----
\* C9: fixed pool with concurrency limit 1 and one caller that keeps
\* submitting: when the cancellation fired after k jobs had started, at most
\* k + 1 jobs are ever started.
C9_BoundedOverrun ==
    (recording /\ kind = "fixed" /\ cap = 1 /\ seq /\ ctxDone)
        => Started <= startedAtCancel + 1

\* ---- C10 ----
\* C10: a call that finds the remaining budget at zero is rejected, and the
\* rejection changes neither the WaitGroup counter, the budget nor the tokens;
\* the work of a rejected call never runs.
C10_RejectInert ==
    [][\A i \in Calls :
          /\ (kind = "fixed" /\ size = 0 /\ pc[i] = "idle" /\ pc'[i] # "idle")
                => pc'[i] = "rej"
          /\ (pc[i] # "rej" /\ pc'[i] = "rej")
                => (size = 0 /\ wg' = wg /\ size' = size /\ c' = c /\ wpc' = wpc)
          /\ pc'[i] = "rej" => ran'[i] = 0]_vars

\* a call was rejected by Add and one by AddNoWait while a job was running
C10_Witness ==
    /\ \E i, j \in Calls : /\ pc[i] = "rej" /\ meth[i] = "Add"
                           /\ pc[j] = "rej" /\ meth[j] = "AddNoWait"
    /\ Running >= 1

\* ---- C11 ----
\* C11: AddNoWait never suspends its caller on the slot pool: the caller's
\* remaining statement (p.size--, go, Unlock) can always be taken, whatever
\* the number of free tokens, and once the goroutine is spawned a sequential
\* caller can make its next call although the submission still waits for a
\* slot.
C11_AddNoWaitNeverBlocks ==
    \A i \in Calls :
        (Alive /\ meth[i] = "AddNoWait") =>
            /\ pc[i] = "dec" => ENABLED FixedDec(i)
            /\ (seq /\ pc[i] \notin {"idle", "dec"} /\ i < ncalls
                    /\ pc[i + 1] = "idle")
                  => ENABLED (FixedEnter(i + 1) \/ DynCall(i + 1))

\* every token is held, an AddNoWait submission waits for one, and the
\* sequential caller has already made its next call
C11_Witness ==
    /\ seq
    /\ Running = cap
    /\ \E i \in Calls : /\ i < MaxCalls
                        /\ meth[i] = "AddNoWait"
                        /\ Blocked(i)
                        /\ pc[i + 1] # "idle"

\* ---- C12 ----
\* C12: ForceFinish is idempotent: a call made when the context is already
\* cancelled (by an earlier ForceFinish or by the parent), also while
\* submissions are in flight, changes nothing at all, so the pool is in the
\* state the first call left and behaves from it as after one call.
C12_ForceFinishIdempotent ==
    [][(ctxDone /\ (ForceFinish \/ ParentCancel)) => UNCHANGED vars]_vars

\* the context is cancelled, a job runs, a submission is at its select, and
\* ForceFinish can be called again
C12_Witness ==
    /\ ctxDone
    /\ Running >= 1
    /\ \E i \in Calls : pc[i] = "select"
    /\ ENABLED ForceFinish

C19_DynamicCounter ==
    kind = "dynamic"
        => wg = Cardinality({i \in Calls : pc[i] \in {"select", "run", "wgdone"}})

\* a dynamic pool after a cancellation: one submission was discarded,
\* one finished, one still runs
C19_Witness ==
    /\ kind = "dynamic"
    /\ ctxDone
    /\ wg = 1
    /\ \E i, j, k \in Calls : pc[i] = "disc" /\ pc[j] = "fin" /\ pc[k] = "run"

\* ---- C20 ----
\* C20: in every reachable state the tokens in the channel plus the jobs
\* that are executing make cap (so a job that is past p.c <- true and about
\* to signal Done holds none, and p.c <- true never finds the channel full);
\* a submission on the cancelled path never ran and holds no token; and when
\* Wait returns in a run without cancellation all cap tokens are in the
\* channel.
SlotsConserved ==
    /\ c + Running = cap
    /\ \A i \in Calls : pc[i] = "run" => c < cap
    /\ \A i \in Calls : pc[i] \in {"zlock", "defer", "disc"} => ran[i] = 0

C20_SlotConservation ==
    [][/\ SlotsConserved
       /\ SlotsConserved'
       /\ (wpc # "ret" /\ wpc' = "ret" /\ ~ctxDone') => c' = cap]_vars

\* Wait returned without cancellation after more jobs than tokens finished,
\* and all tokens are back
C20_Witness ==
    /\ ~ctxDone
    /\ wpc = "ret"
    /\ c = cap
    /\ NumFinished > cap

\* ---- C18 ----
\* C18: cancellation never interrupts running work.  The step that cancels
\* the context changes no submission's position, no token and no counter; a
\* job that holds a slot always can finish its work, and leaves the running
\* state only by returning its token (c + 1); after that it always can, and
\* only does, decrement the Completion Counter by exactly one.
RunsToCompletion ==
    \A i \in Calls :
        /\ pc[i] = "run" => ENABLED Release(i)
        /\ pc[i] = "wgdone" => ENABLED WorkDone(i)

CancelTouchesNoWork ==
    /\ ctxDone' # ctxDone => UNCHANGED <<pc, ran, c, wg, size, mux>>
    /\ \A i \in Calls :
          /\ (pc[i] = "run" /\ pc'[i] # "run")
                => (pc'[i] = "wgdone" /\ c' = c + 1 /\ wg' = wg)
          /\ (pc[i] = "wgdone" /\ pc'[i] # "wgdone")
                => (pc'[i] = "fin" /\ wg' = wg - 1 /\ c' = c)

C18_CancelSparesRunningWork ==
    []RunsToCompletion /\ [][CancelTouchesNoWork]_vars

\* every slot was taken and a submission was blocked when the context was
\* cancelled; all the started jobs have since finished
C18_Witness ==
    /\ recording
    /\ blockedAtCancel
    /\ Started >= 1
    /\ NumFinished = Started

\* ---- C15 ----
\* cumulative number of accepted submissions: the calls that passed the
\* p.size == 0 test and executed p.size--
Accepted == Cardinality({i \in Calls : pc[i] \notin {"idle", "dec", "rej"}})

\* a submission has gone through zeroizeWaitgroup
ZeroizeCalled == \E i \in Calls : pc[i] \in {"defer", "disc"}

\* C15 as stated: in every reachable state of the fixed pool, Remaining
\* Budget + accepted submissions = totalJobs, also after the zeroing protocol.
C15_BudgetAccounting == kind = "fixed" => size + Accepted = total

\* C15 amended: the equality holds in every state in which no submission has
\* gone through the zeroing protocol; the sum never exceeds totalJobs; and
\* when it is below totalJobs the context is cancelled, a submission has
\* gone through the zeroing protocol and the Remaining Budget is 0.
C15_BudgetAccountingUntilZeroing ==
    kind = "fixed" =>
        /\ size >= 0
        /\ size + Accepted <= total
        /\ ~ZeroizeCalled => size + Accepted = total
        /\ size + Accepted < total => (ctxDone /\ ZeroizeCalled /\ size = 0)

\* the zeroing protocol has dropped a positive Remaining Budget
C15_Witness ==
    /\ kind = "fixed" /\ ctxDone /\ ZeroizeCalled
    /\ size = 0 /\ Accepted >= 1 /\ Accepted < total

\* ---- C16 ----
\* the bulk decrement of zeroizeWaitgroup has been applied: part of the
\* budget was dropped without being accepted
ZeroingApplied == kind = "fixed" /\ size + Accepted < total

\* C16: the zeroing protocol takes effect at most once (after it has, no step
\* changes the Remaining Budget or lowers the Completion Counter by more than
\* one), and after it the Completion Counter is not negative and is zero once
\* every submission has resolved.
C16_ZeroingOnce ==
    /\ [](ZeroingApplied => (wg >= 0 /\ (Quiescent => wg = 0)))
    /\ [][ZeroingApplied => (size' = size /\ wg' >= wg - 1)]_vars

\* ---- C17 ----
\* C17: Add and AddNoWait have the same net effect.  Two resolved
\* submissions, one made through Add and one through AddNoWait, whose select
\* had the same outcome (slot won, or cancellation observed with the same
\* Remaining Budget) have made the same net change to the Completion
\* Counter, the Remaining Budget and the slot pool.
C17_SameNetEffect ==
    \A i, j \in Calls :
        ( /\ Resolved(i) /\ meth[i] = "Add"
          /\ Resolved(j) /\ meth[j] = "AddNoWait"
          /\ net[i].obs # "none"
          /\ net[i].obs = net[j].obs
          /\ net[i].seen = net[j].seen )
        => /\ net[i].wg = net[j].wg
           /\ net[i].size = net[j].size
           /\ net[i].c = net[j].c

\* ---- C14 ----
\* expectedTime := int(math.Ceil(float64(total) / float64(concur)))
CeilDiv(n, d) == (n + d - 1) \div d

\* the jobs of a timed run: every submission, up to the budget of a fixed pool
NJobs == IF kind = "fixed" /\ total < ncalls THEN total ELSE ncalls

\* C14: throughput bound.  In a timed run (every job takes one time unit,
\* the other steps none, no cancellation) with concurrency limit cap and N
\* jobs the clock never passes ceil(N / cap), and when the run has come to
\* rest - for a fixed pool, with its whole budget submitted - Wait has
\* returned; this with any mix of Add and AddNoWait.
C14_ThroughputBound ==
    timer.on =>
        /\ timer.now <= CeilDiv(NJobs, cap)
        /\ ((kind = "fixed" => ncalls = total) /\ ~ENABLED TimedNext)
              => (wpc = "ret" /\ NumFinished = NJobs)

\* more jobs than slots: Wait has returned at time ceil(N / cap) > 1
C14_Witness ==
    /\ timer.on /\ wpc = "ret"
    /\ ncalls > cap /\ NumFinished = ncalls
    /\ timer.now = CeilDiv(ncalls, cap) /\ timer.now >= 2

====
